---------------------------- MODULE Spec2Model ----------------------------
(***************************************************************************)
(* A model of qdoc's ManifestWriter (src/src/qdoc/manifestwriter.cpp):     *)
(* generateManifestFiles() and the helpers it calls.  QString values are   *)
(* TLA+ strings, QStringList values are sequences of strings, QSet values  *)
(* are sets, and a QMap<int, QString> is a function whose domain is the    *)
(* set of keys present.  What a QXmlStreamWriter was asked to write is a   *)
(* sequence of records [op, name, value], one per writer call.             *)
(***************************************************************************)
EXTENDS Integers, Sequences, FiniteSets

(***************************************************************************)
(* QString operations.  Positions are 0-based, as in Qt.                   *)
(***************************************************************************)
At(s, i) == SubSeq(s, i + 1, i + 1)

Left(s, n) == SubSeq(s, 1, n)

Mid(s, pos) == SubSeq(s, pos + 1, Len(s))

Chop(s, n) == IF n >= Len(s) THEN "" ELSE SubSeq(s, 1, Len(s) - n)

StartsWith(s, p) == Len(p) <= Len(s) /\ SubSeq(s, 1, Len(p)) = p

EndsWith(s, p) == Len(p) <= Len(s) /\ SubSeq(s, Len(s) - Len(p) + 1, Len(s)) = p

RECURSIVE IndexFrom(_, _, _)
IndexFrom(s, ch, from) ==
    IF from >= Len(s) THEN -1
    ELSE IF At(s, from) = ch THEN from
    ELSE IndexFrom(s, ch, from + 1)

IndexOf(s, ch) == IndexFrom(s, ch, 0)

RECURSIVE LastIndexFrom(_, _, _)
LastIndexFrom(s, ch, from) ==
    IF from < 0 THEN -1
    ELSE IF At(s, from) = ch THEN from
    ELSE LastIndexFrom(s, ch, from - 1)

LastIndexOf(s, ch) == LastIndexFrom(s, ch, Len(s) - 1)

UpperCaseLetters == "ABCDEFGHIJKLMNOPQRSTUVWXYZ"

LowerCaseLetters == "abcdefghijklmnopqrstuvwxyz"

DigitChars == "0123456789"

CharsOf(s) == {At(s, i) : i \in 0..(Len(s) - 1)}

UpperCaseSet == CharsOf(UpperCaseLetters)

LowerCaseSet == CharsOf(LowerCaseLetters)

DigitSet == CharsOf(DigitChars)

LowerCaseOf == [ch \in UpperCaseSet |-> At(LowerCaseLetters, IndexOf(UpperCaseLetters, ch))]

IsUpper(ch) == ch \in UpperCaseSet

IsLower(ch) == ch \in LowerCaseSet

IsDigit(ch) == ch \in DigitSet

ToLowerChar(ch) == IF IsUpper(ch) THEN LowerCaseOf[ch] ELSE ch

RECURSIVE ToLower(_)
ToLower(s) ==
    IF Len(s) = 0 THEN "" ELSE ToLowerChar(At(s, 0)) \o ToLower(Mid(s, 1))

\* QString::compare(other, Qt::CaseInsensitive) == 0
EqualsIgnoreCase(a, b) == ToLower(a) = ToLower(b)

\* QString::split(sep), which keeps empty parts: "".split(' ') is [""].
RECURSIVE Split(_, _)
Split(s, sep) ==
    LET i == IndexOf(s, sep)
    IN  IF i = -1 THEN <<s>> ELSE <<Left(s, i)>> \o Split(Mid(s, i + 1), sep)

RECURSIVE Join(_, _)
Join(list, sep) ==
    IF Len(list) = 0 THEN ""
    ELSE IF Len(list) = 1 THEN list[1]
    ELSE list[1] \o sep \o Join(Tail(list), sep)

Range(list) == {list[i] : i \in 1..Len(list)}

\* QStringList::contains
ListContains(list, s) == \E i \in 1..Len(list) : list[i] = s

(***************************************************************************)
(* QStringList::sort(): ascending by code unit.  AsciiOrder lists the      *)
(* characters the model's strings use, in code order.                      *)
(***************************************************************************)
AsciiOrder == " ()*,-./0123456789:ABCDEFGHIJKLMNOPQRSTUVWXYZabcdefghijklmnopqrstuvwxyz"

CharCodes == [ch \in CharsOf(AsciiOrder) |-> IndexOf(AsciiOrder, ch)]

CharCode(ch) == CharCodes[ch]

RECURSIVE StringLess(_, _)
StringLess(a, b) ==
    IF Len(b) = 0 THEN FALSE
    ELSE IF Len(a) = 0 THEN TRUE
    ELSE IF At(a, 0) = At(b, 0) THEN StringLess(Mid(a, 1), Mid(b, 1))
    ELSE CharCode(At(a, 0)) < CharCode(At(b, 0))

RECURSIVE SortedList(_)
SortedList(S) ==
    IF S = {} THEN <<>>
    ELSE LET least == CHOOSE x \in S : \A y \in S \ {x} : StringLess(x, y)
         IN  <<least>> \o SortedList(S \ {least})

(***************************************************************************)
(* QFileInfo(file).fileName() and .baseName()                              *)
(***************************************************************************)
FileName(file) == Mid(file, LastIndexOf(file, "/") + 1)

BaseName(file) ==
    LET name == FileName(file)
        dot == IndexOf(name, ".")
    IN  IF dot = -1 THEN name ELSE Left(name, dot)

(***************************************************************************)
(* QMap<int, QString>: insert() replaces the value of a key already there. *)
(***************************************************************************)
EmptyMap == [k \in {} |-> ""]

\* As MapInsert, but a key already there keeps its value.
MapInsertIfAbsent(m, k, v) ==
    [x \in (DOMAIN m) \cup {k} |-> IF x \in DOMAIN m THEN m[x] ELSE v]

MapInsert(m, k, v) == [x \in (DOMAIN m) \cup {k} |-> IF x = k THEN v ELSE m[x]]

(***************************************************************************)
(* getFilesToOpen(files, exampleName)                                      *)
(***************************************************************************)
InsertFileToOpen(filesToOpen, file, exampleName) ==
    LET fileName == ToLower(FileName(file))
    IN  IF EqualsIgnoreCase(BaseName(file), exampleName)
        THEN IF EndsWith(fileName, ".qml") THEN MapInsert(filesToOpen, 0, file)
             ELSE IF EndsWith(fileName, ".cpp") THEN MapInsert(filesToOpen, 1, file)
             ELSE IF EndsWith(fileName, ".h") THEN MapInsert(filesToOpen, 2, file)
             ELSE filesToOpen
        ELSE IF EndsWith(fileName, "main.qml") THEN MapInsert(filesToOpen, 3, file)
        ELSE IF EndsWith(fileName, "main.cpp") THEN MapInsert(filesToOpen, 4, file)
        ELSE filesToOpen

RECURSIVE GetFilesToOpenFrom(_, _, _)
GetFilesToOpenFrom(fileList, exampleName, filesToOpen) ==
    IF Len(fileList) = 0 THEN filesToOpen
    ELSE GetFilesToOpenFrom(Tail(fileList), exampleName,
                            InsertFileToOpen(filesToOpen, Head(fileList), exampleName))

GetFilesToOpen(fileList, exampleName) ==
    GetFilesToOpenFrom(fileList, exampleName, EmptyMap)

(***************************************************************************)
(* QXmlStreamWriter calls, recorded in the order they are made.            *)
(***************************************************************************)
StartDocument == [op |-> "startDocument", name |-> "", value |-> ""]

EndDocument == [op |-> "endDocument", name |-> "", value |-> ""]

StartElement(n) == [op |-> "startElement", name |-> n, value |-> ""]

EndElement == [op |-> "endElement", name |-> "", value |-> ""]

Attribute(n, v) == [op |-> "attribute", name |-> n, value |-> v]

Characters(text) == [op |-> "characters", name |-> "", value |-> text]

CDATA(text) == [op |-> "cdata", name |-> "", value |-> text]

(***************************************************************************)
(* writeFilesToOpen(writer, installPath, filesToOpen): the iterator starts *)
(* at constEnd() and is decremented before each use, so keys are visited   *)
(* from the greatest to the least; the element whose iterator equals       *)
(* constBegin() (the least key) gets mainFile="true".                      *)
(***************************************************************************)
MaxKey(keys) == CHOOSE k \in keys : \A j \in keys : j <= k

MinKey(keys) == CHOOSE k \in keys : \A j \in keys : k <= j

\* As WriteFilesToOpenFrom, with the iterator run forwards from constBegin().
RECURSIVE WriteFilesToOpenForwards(_, _, _)
WriteFilesToOpenForwards(installPath, filesToOpen, keysLeft) ==
    IF keysLeft = {} THEN <<>>
    ELSE LET it == MinKey(keysLeft)
         IN  <<StartElement("fileToOpen")>>
             \o (IF it = MinKey(DOMAIN filesToOpen)
                 THEN <<Attribute("mainFile", "true")>> ELSE <<>>)
             \o <<Characters(installPath \o filesToOpen[it]), EndElement>>
             \o WriteFilesToOpenForwards(installPath, filesToOpen, keysLeft \ {it})

RECURSIVE WriteFilesToOpenFrom(_, _, _)
WriteFilesToOpenFrom(installPath, filesToOpen, keysLeft) ==
    IF keysLeft = {} THEN <<>>
    ELSE LET it == MaxKey(keysLeft)
         IN  <<StartElement("fileToOpen")>>
             \o (IF it = MinKey(DOMAIN filesToOpen)
                 THEN <<Attribute("mainFile", "true")>> ELSE <<>>)
             \o <<Characters(installPath \o filesToOpen[it]), EndElement>>
             \o WriteFilesToOpenFrom(installPath, filesToOpen, keysLeft \ {it})

WriteFilesToOpen(installPath, filesToOpen) ==
    WriteFilesToOpenFrom(installPath, filesToOpen, DOMAIN filesToOpen)

(***************************************************************************)
(* processManifestMetaContent: the match of one name pattern (the switch   *)
(* on name.indexOf('*')), and the split of one attribute.                  *)
(***************************************************************************)
\* As NameMatches, with the whole pattern, '*' included, taken as the prefix.
NameMatchesWholePattern(name, fullName) ==
    LET wildcard == IndexOf(name, "*")
    IN  IF wildcard = -1 THEN fullName = name
        ELSE IF wildcard = 0 THEN TRUE
        ELSE StartsWith(fullName, name)

NameMatches(name, fullName) ==
    LET wildcard == IndexOf(name, "*")
    IN  IF wildcard = -1 THEN fullName = name
        ELSE IF wildcard = 0 THEN TRUE
        ELSE StartsWith(fullName, Left(name, wildcard))

AttrList(attribute) ==
    LET attrList == Split(attribute, ":")
    IN  IF Len(attrList) = 1 THEN attrList \o <<"true">> ELSE attrList

AttrName(attribute) == Head(AttrList(attribute))

AttrValue(attribute) == Join(Tail(AttrList(attribute)), ":")

\* As WriteFilterAttributes, without the test usedAttributes->contains(attrName).
RECURSIVE WriteFilterAttributesUnchecked(_, _)
WriteFilterAttributesUnchecked(attributes, state) ==
    IF Len(attributes) = 0 THEN state
    ELSE LET attrName == AttrName(Head(attributes))
             next == [used |-> Append(state.used, attrName),
                      written |-> Append(state.written,
                                         Attribute(attrName, AttrValue(Head(attributes))))]
         IN  WriteFilterAttributesUnchecked(Tail(attributes), next)

\* The inner loop over one matching filter's attributes, in the order given.
RECURSIVE WriteFilterAttributes(_, _)
WriteFilterAttributes(attributes, state) ==
    IF Len(attributes) = 0 THEN state
    ELSE LET attrName == AttrName(Head(attributes))
             next == IF ~ListContains(state.used, attrName)
                     THEN [used |-> Append(state.used, attrName),
                           written |-> Append(state.written,
                                              Attribute(attrName, AttrValue(Head(attributes))))]
                     ELSE state
         IN  WriteFilterAttributes(Tail(attributes), next)

\* The orders in which a QSet<QString> can be iterated.
Orderings(S) ==
    {seq \in [1..Cardinality(S) -> S] : \A i, j \in 1..Cardinality(S) : i # j => seq[i] # seq[j]}

(***************************************************************************)
(* cleanUpTags, for one tag.  tag.at(0) on an empty tag is outside the     *)
(* string: where the build does not stop there, it yields some character,  *)
(* here garbage.                                                           *)
(***************************************************************************)
AtInBounds(tag, i) == 0 <= i /\ i < Len(tag)

FirstChar(tag, garbage) == IF AtInBounds(tag, 0) THEN At(tag, 0) ELSE garbage

\* As StripTag, with tag.chop(1) done whether or not the tag ends with ':'.
StripTagAlwaysChop(tag, garbage) ==
    LET unparenthesized == IF FirstChar(tag, garbage) = "("
                           THEN Chop(Mid(tag, 1), 1) ELSE tag
    IN  Chop(unparenthesized, 1)

StripTag(tag, garbage) ==
    LET unparenthesized == IF FirstChar(tag, garbage) = "("
                           THEN Chop(Mid(tag, 1), 1) ELSE tag
    IN  IF EndsWith(unparenthesized, ":") THEN Chop(unparenthesized, 1)
        ELSE unparenthesized

ExcludedTag(tag) ==
    \/ Len(tag) < 2
    \/ IsDigit(At(tag, 0))
    \/ At(tag, 0) = "-"
    \/ tag = "qt"
    \/ tag = "the"
    \/ tag = "and"
    \/ StartsWith(tag, "example")
    \/ StartsWith(tag, "chapter")

CleanedTags(tags, garbage) ==
    {StripTag(tag, garbage) : tag \in {t \in tags : ~ExcludedTag(StripTag(t, garbage))}}

(***************************************************************************)
(* addWordsFromModuleNamesAsTags: the matches of                           *)
(* ([A-Z]+[a-z0-9]*(3D|GL)?) in project from offset pos on.  Both runs are *)
(* greedy and nothing follows the optional group, so a match is never      *)
(* shortened: it starts at the first upper-case letter at or after pos.    *)
(***************************************************************************)
RECURSIVE UpperRunEnd(_, _)
UpperRunEnd(s, i) == IF i < Len(s) /\ IsUpper(At(s, i)) THEN UpperRunEnd(s, i + 1) ELSE i

RECURSIVE LowerDigitRunEnd(_, _)
LowerDigitRunEnd(s, i) ==
    IF i < Len(s) /\ (IsLower(At(s, i)) \/ IsDigit(At(s, i)))
    THEN LowerDigitRunEnd(s, i + 1) ELSE i

SuffixEnd(s, i) ==
    IF i + 2 <= Len(s) /\ SubSeq(s, i + 1, i + 2) \in {"3D", "GL"} THEN i + 2 ELSE i

RECURSIVE ModuleNameWords(_, _)
ModuleNameWords(project, pos) ==
    IF \E i \in pos..(Len(project) - 1) : IsUpper(At(project, i))
    THEN LET start == CHOOSE i \in pos..(Len(project) - 1) :
                          /\ IsUpper(At(project, i))
                          /\ \A j \in pos..(i - 1) : ~IsUpper(At(project, j))
             capturedEnd == SuffixEnd(project,
                                LowerDigitRunEnd(project, UpperRunEnd(project, start)))
         IN  {ToLower(SubSeq(project, start + 1, capturedEnd))}
                 \cup ModuleNameWords(project, capturedEnd)
    ELSE {}

(***************************************************************************)
(* addTitleWordsToTags and includeTagsAddedWithMetaCommand                 *)
(***************************************************************************)
\* As TitleWords, without toLower().
TitleWordsNotLowered(title) == Range(Split(title, " "))

TitleWords(title) == Range(Split(ToLower(title), " "))

MetaCommandTags(metaTags) ==
    UNION {Range(Split(ToLower(metaTags[i]), ",")) : i \in 1..Len(metaTags)}

(***************************************************************************)
(* Inputs.  The configuration (Config::instance()) and the documentation   *)
(* database (m_qdb->exampleNodeMap()) are read, not computed, by the       *)
(* writer; these are the values the model draws them from.                 *)
(***************************************************************************)
MaxExamples == 2

Projects == {"QtQuick3D", "QtOpenGL", "QtQuickControls", "MyModule", "Qt"}

ConfigNamespace == "org.qt-project.docs"

ConfigVirtualFolder == "docs"

ConfigExamplesInstallPath == "examples"

\* The examples the database may hold, in the order exampleNodeMap.values()
\* returns those present.  metaTags are the values of "tag" in the
\* example's metaTagMap(), installpath the value of "installpath".
ExampleTable ==
    << [name |-> "tools/untitled", title |-> "", fileBase |-> "tools-untitled-example",
        projectFile |-> "tools/untitled/untitled.pro", imageFileName |-> "",
        brief |-> "", files |-> <<"tools/untitled/main.cpp">>,
        hasMetaTagMap |-> FALSE, metaTags |-> <<>>, installpath |-> ""],
       [name |-> "tools/the", title |-> "And The Example", fileBase |-> "tools-the-example",
        projectFile |-> "tools/the/the.pro", imageFileName |-> "images/the.png",
        brief |-> "", files |-> <<"tools/the/the.cpp", "tools/the/the.h">>,
        hasMetaTagMap |-> FALSE, metaTags |-> <<>>, installpath |-> ""],
       [name |-> "demos/calqlatr", title |-> "Calqlatr", fileBase |-> "demos-calqlatr-example",
        projectFile |-> "demos/calqlatr/calqlatr.pro",
        imageFileName |-> "images/calqlatr.png", brief |-> "A calculator",
        files |-> <<"demos/calqlatr/main.cpp", "demos/calqlatr/calqlatr.qml">>,
        hasMetaTagMap |-> TRUE, metaTags |-> <<"Android,iOS">>, installpath |-> "demos"],
       [name |-> "demoscene", title |-> "Chat ((beta)) Example", fileBase |-> "demoscene-example",
        projectFile |-> "", imageFileName |-> "", brief |-> "",
        files |-> <<>>,
        hasMetaTagMap |-> TRUE, metaTags |-> <<"ab::", "(net):">>, installpath |-> ""],
       [name |-> "widgets/foo", title |-> "Foo", fileBase |-> "widgets-foo-example",
        projectFile |-> "widgets/foo/foo.pro", imageFileName |-> "", brief |-> "Foo widgets",
        files |-> <<"widgets/foo/foo.h", "widgets/foo/foo.cpp", "widgets/foo/main.cpp">>,
        hasMetaTagMap |-> FALSE, metaTags |-> <<>>, installpath |-> ""],
       [name |-> "quick/gallery", title |-> "Gallery  The (QML) 3D-View",
        fileBase |-> "quick-gallery-example",
        projectFile |-> "", imageFileName |-> "images/gallery.png", brief |-> "",
        files |-> <<"quick/gallery/main.qml", "quick/gallery/Gallery.h">>,
        hasMetaTagMap |-> TRUE, metaTags |-> <<>>, installpath |-> "quick/"],
       [name |-> "net/http", title |-> "HTTP Client", fileBase |-> "net-http-example",
        projectFile |-> "net/http/http.pro", imageFileName |-> "images/http.png",
        brief |-> "An HTTP client",
        files |-> <<"net/http/httpwindow.cpp">>,
        hasMetaTagMap |-> TRUE, metaTags |-> <<"net,,web">>, installpath |-> ""] >>

\* The filter lists readManifestMetaContent() may load: a QList of
\* ManifestMetaFilter {names, attributes, tags}, each a QSet<QString>.
FilterLists ==
    { <<>>,
      << [names |-> {"*"}, attributes |-> {"isHighlighted", "category:demo"},
          tags |-> {"Android"}],
         [names |-> {"MyModule*", "QtOpenGL/Foo"},
          attributes |-> {"category:module", "imageUrl:fallback.png"},
          tags |-> {"mobile", "qt"}] >>,
      << [names |-> {"MyModule/Foo"}, attributes |-> {"name:Other", "projectPath:a:b"},
          tags |-> {"ab::"}],
         [names |-> {"Qt*GL/Foo", "QtQuick3D/Foo*"},
          attributes |-> {"category:qt", "category:other"},
          tags |-> {"((beta))"}],
         [names |-> {"*Foo"}, attributes |-> {"category:last"}, tags |-> {}] >>,
      << [names |-> {"QtQuick3D/Calqlatr", "QtQuick*"}, attributes |-> {"imageUrl:quick.png"},
          tags |-> {"X"}] >> }

\* What tag.at(0) may yield where it is read outside the string.
GarbageChars == {"(", "x"}

(***************************************************************************)
(* Inputs of the file ranking when it is exercised on its own.             *)
(***************************************************************************)
MaxFiles == 3

FileCandidates ==
    {"foo.qml", "src/Foo.QML", "foo.cpp", "foo.h", "foo.txt", "foo.main.qml",
     "main.qml", "app/Main.cpp", "foomain.cpp"}

ExampleNameCandidates == {"foo", "Foo", "main"}

InstallPathCandidates == {"", "examples/"}

(***************************************************************************)
(* State                                                                   *)
(***************************************************************************)
VARIABLES
    exampleNodeMap,         \* m_qdb->exampleNodeMap(): indices into ExampleTable
    m_project,              \* ManifestWriter::m_project
    m_manifestMetaContent,  \* ManifestWriter::m_manifestMetaContent
    m_tags,                 \* ManifestWriter::m_tags
    pc,                     \* the statement generateManifestFiles() is at
    manifest,               \* generateManifestFile's argument
    exampleIdx,             \* the loop's position in exampleNodeMap.values()
    installPath,            \* generateManifestFile's local
    usedAttributes,         \* generateManifestFile's local
    fullName,               \* generateManifestFile's local
    filterIdx,              \* processManifestMetaContent's position in the filter list
    exampleName,            \* generateManifestFile's local
    files,                  \* generateManifestFile's local
    filesToOpen,            \* generateManifestFile's local
    created,                \* the manifests whose output file was opened
    out,                    \* per manifest, the calls made on its QXmlStreamWriter
    warnings                \* the messages passed to Location().warning()

vars == <<exampleNodeMap, m_project, m_manifestMetaContent, m_tags, pc, manifest,
          exampleIdx, installPath, usedAttributes, fullName, filterIdx, exampleName,
          files, filesToOpen, created, out, warnings>>

Manifests == {"examples", "demos"}

Element(m) == IF m = "examples" THEN "example" ELSE "demo"

\* ManifestWriter::ManifestWriter()
ManifestDir == "qthelp://" \o ConfigNamespace \o "/" \o ConfigVirtualFolder \o "/"

ExamplesPath ==
    IF ConfigExamplesInstallPath # "" THEN ConfigExamplesInstallPath \o "/"
    ELSE ConfigExamplesInstallPath

Example == ExampleTable[exampleIdx]

IsDemo(i) == StartsWith(ExampleTable[i].name, "demos")

Init ==
    /\ exampleNodeMap \in {S \in SUBSET (1..Len(ExampleTable)) : Cardinality(S) <= MaxExamples}
    /\ m_project \in Projects
    /\ m_manifestMetaContent \in FilterLists
    /\ m_tags = {}
    /\ pc = "start"
    /\ manifest = ""
    /\ exampleIdx = 0
    /\ installPath = ""
    /\ usedAttributes = <<>>
    /\ fullName = ""
    /\ filterIdx = 0
    /\ exampleName = ""
    /\ files = <<>>
    /\ filesToOpen = EmptyMap
    /\ created = {}
    /\ out = [m \in Manifests |-> <<>>]
    /\ warnings = <<>>

Write(events) == out' = [out EXCEPT ![manifest] = @ \o events]


(***************************************************************************)
(* generateManifestFiles() and generateManifestFile(manifest, element)     *)
(***************************************************************************)
\* generateManifestFiles(): the first call, generateManifestFile("examples", "example")
GenerateManifestFiles ==
    /\ pc = "start"
    /\ manifest' = "examples"
    /\ pc' = "enter"
    /\ UNCHANGED <<exampleNodeMap, m_project, m_manifestMetaContent, m_tags, exampleIdx,
                   installPath, usedAttributes, fullName, filterIdx, exampleName, files,
                   filesToOpen, created, out, warnings>>

\* The early returns: an empty map, or no example of the manifest's kind.
EnterGenerateManifestFile ==
    /\ pc = "enter"
    /\ LET demos == (manifest = "demos")
           proceed == \E i \in exampleNodeMap : demos = IsDemo(i)
       IN  pc' = IF exampleNodeMap = {} THEN "return"
                 ELSE IF ~proceed THEN "return"
                 ELSE "open"
    /\ UNCHANGED <<exampleNodeMap, m_project, m_manifestMetaContent, m_tags, manifest,
                   exampleIdx, installPath, usedAttributes, fullName, filterIdx,
                   exampleName, files, filesToOpen, created, out, warnings>>

\* outputFile.open(): it fails, and the function returns, or the document is begun.
OpenOutputFile ==
    /\ pc = "open"
    /\ \E opened \in BOOLEAN :
          IF ~opened
          THEN /\ pc' = "return"
               /\ UNCHANGED <<created, out, exampleIdx, usedAttributes>>
          ELSE /\ created' = created \cup {manifest}
               /\ Write(<<StartDocument, StartElement("instructionals"),
                          Attribute("module", m_project), StartElement(manifest)>>)
               /\ usedAttributes' = <<>>
               /\ exampleIdx' = 0
               /\ pc' = "loop"
    /\ UNCHANGED <<exampleNodeMap, m_project, m_manifestMetaContent, m_tags, manifest,
                   installPath, fullName, filterIdx, exampleName, files, filesToOpen,
                   warnings>>

\* The loop's "continue": if (demos) { if (!name.startsWith("demos")) continue; }
\* else if (name.startsWith("demos")) continue;
SkipsWithoutElse(demos, i) == IF demos THEN ~IsDemo(i) ELSE FALSE

SkipsExample(demos, i) == IF demos THEN ~IsDemo(i) ELSE IsDemo(i)

\* for (example : exampleNodeMap.values()): the next example, skipped if it is
\* not of the manifest's kind; past the last one, the loop ends.
NextExample ==
    /\ pc = "loop"
    /\ LET rest == {i \in exampleNodeMap : i > exampleIdx}
       IN  IF rest = {}
           THEN /\ pc' = "close"
                /\ UNCHANGED exampleIdx
           ELSE LET i == MinKey(rest)
                    demos == (manifest = "demos")
                IN  /\ exampleIdx' = i
                    /\ pc' = IF SkipsExample(demos, i) THEN "loop" ELSE "startExample"
    /\ UNCHANGED <<exampleNodeMap, m_project, m_manifestMetaContent, m_tags, manifest,
                   installPath, usedAttributes, fullName, filterIdx, exampleName, files,
                   filesToOpen, created, out, warnings>>

\* retrieveExampleInstallationPath(example)
RetrieveExampleInstallationPath(example) ==
    LET fromMeta == IF example.hasMetaTagMap THEN example.installpath ELSE ""
        path == IF fromMeta = "" THEN ExamplesPath ELSE fromMeta
    IN  IF path # "" /\ ~EndsWith(path, "/") THEN path \o "/" ELSE path

\* installPath is retrieved and usedAttributes is reset to name, docUrl.
StartExample ==
    /\ pc = "startExample"
    /\ installPath' = RetrieveExampleInstallationPath(Example)
    /\ usedAttributes' = <<"name", "docUrl">>
    /\ pc' = "writeElement"
    /\ UNCHANGED <<exampleNodeMap, m_project, m_manifestMetaContent, m_tags, manifest,
                   exampleIdx, fullName, filterIdx, exampleName, files, filesToOpen,
                   created, out, warnings>>

\* The element is started and its own attributes are written.
WriteExampleElement ==
    /\ pc = "writeElement"
    /\ LET hasProject == Example.projectFile # ""
           hasImage == Example.imageFileName # ""
       IN  /\ Write(<<StartElement(Element(manifest)),
                      Attribute("name", Example.title),
                      Attribute("docUrl", ManifestDir \o Example.fileBase \o ".html")>>
                    \o (IF hasProject
                        THEN <<Attribute("projectPath", installPath \o Example.projectFile)>>
                        ELSE <<>>)
                    \o (IF hasImage
                        THEN <<Attribute("imageUrl", ManifestDir \o Example.imageFileName)>>
                        ELSE <<>>))
           /\ usedAttributes' = usedAttributes
                                \o (IF hasProject THEN <<"projectPath">> ELSE <<>>)
                                \o (IF hasImage THEN <<"imageUrl">> ELSE <<>>)
    /\ fullName' = m_project \o "/" \o Example.title
    /\ filterIdx' = 1
    /\ pc' = "processMeta"
    /\ UNCHANGED <<exampleNodeMap, m_project, m_manifestMetaContent, m_tags, manifest,
                   exampleIdx, installPath, exampleName, files, filesToOpen, created,
                   warnings>>

\* The body of "if (match)" is run once for each name of the filter that
\* matches; attributes are visited in the QSet's order, the same each time.
RECURSIVE ApplyFilter(_, _, _)
ApplyFilter(times, attributes, state) ==
    IF times = 0 THEN state
    ELSE ApplyFilter(times - 1, attributes, WriteFilterAttributes(attributes, state))

\* processManifestMetaContent(fullName, &usedAttributes, &writer): one filter
\* of m_manifestMetaContent; past the last filter, the function returns.
ProcessManifestMetaContent ==
    /\ pc = "processMeta"
    /\ IF filterIdx > Len(m_manifestMetaContent)
       THEN /\ pc' = "warn"
            /\ UNCHANGED <<m_tags, usedAttributes, out, filterIdx>>
       ELSE LET index == m_manifestMetaContent[filterIdx]
                matches == {name \in index.names : NameMatches(name, fullName)}
            IN  /\ \E attributes \in Orderings(index.attributes) :
                      LET result == ApplyFilter(Cardinality(matches), attributes,
                                                [used |-> usedAttributes, written |-> <<>>])
                      IN  /\ usedAttributes' = result.used
                          /\ Write(result.written)
                /\ m_tags' = IF matches # {} THEN m_tags \cup index.tags ELSE m_tags
                /\ filterIdx' = filterIdx + 1
                /\ pc' = "processMeta"
    /\ UNCHANGED <<exampleNodeMap, m_project, m_manifestMetaContent, manifest, exampleIdx,
                   installPath, fullName, exampleName, files, filesToOpen, created,
                   warnings>>

\* As MissingAttributeWarnings, leaving the loop after the first warning.
RECURSIVE MissingAttributeWarningsFirstOnly(_, _, _)
MissingAttributeWarningsFirstOnly(attributesToWarnFor, used, name) ==
    IF Len(attributesToWarnFor) = 0 THEN <<>>
    ELSE IF ~ListContains(used, Head(attributesToWarnFor))
    THEN <<name \o ": missing attribute " \o Head(attributesToWarnFor)>>
    ELSE MissingAttributeWarningsFirstOnly(Tail(attributesToWarnFor), used, name)

\* warnAboutUnusedAttributes(usedAttributes, example->name())
RECURSIVE MissingAttributeWarnings(_, _, _)
MissingAttributeWarnings(attributesToWarnFor, used, name) ==
    IF Len(attributesToWarnFor) = 0 THEN <<>>
    ELSE (IF ~ListContains(used, Head(attributesToWarnFor))
          THEN <<name \o ": missing attribute " \o Head(attributesToWarnFor)>>
          ELSE <<>>)
         \o MissingAttributeWarnings(Tail(attributesToWarnFor), used, name)

WarnAboutUnusedAttributes ==
    /\ pc = "warn"
    /\ warnings' = warnings \o MissingAttributeWarnings(<<"imageUrl", "projectPath">>,
                                                        usedAttributes, Example.name)
    /\ pc' = "description"
    /\ UNCHANGED <<exampleNodeMap, m_project, m_manifestMetaContent, m_tags, manifest,
                   exampleIdx, installPath, usedAttributes, fullName, filterIdx,
                   exampleName, files, filesToOpen, created, out>>

\* writeDescription(&writer, example)
WriteDescription ==
    /\ pc = "description"
    /\ Write(<<StartElement("description"),
               CDATA(IF Example.brief # "" THEN Example.brief
                     ELSE "No description available"),
               EndElement>>)
    /\ pc' = "moduleTags"
    /\ UNCHANGED <<exampleNodeMap, m_project, m_manifestMetaContent, m_tags, manifest,
                   exampleIdx, installPath, usedAttributes, fullName, filterIdx,
                   exampleName, files, filesToOpen, created, warnings>>

\* addWordsFromModuleNamesAsTags()
AddWordsFromModuleNamesAsTags ==
    /\ pc = "moduleTags"
    /\ m_tags' = m_tags \cup ModuleNameWords(m_project, 0)
    /\ pc' = "metaTags"
    /\ UNCHANGED <<exampleNodeMap, m_project, m_manifestMetaContent, manifest, exampleIdx,
                   installPath, usedAttributes, fullName, filterIdx, exampleName, files,
                   filesToOpen, created, out, warnings>>

\* includeTagsAddedWithMetaCommand(example)
IncludeTagsAddedWithMetaCommand ==
    /\ pc = "metaTags"
    /\ m_tags' = IF Example.hasMetaTagMap
                 THEN m_tags \cup MetaCommandTags(Example.metaTags)
                 ELSE m_tags
    /\ pc' = "titleTags"
    /\ UNCHANGED <<exampleNodeMap, m_project, m_manifestMetaContent, manifest, exampleIdx,
                   installPath, usedAttributes, fullName, filterIdx, exampleName, files,
                   filesToOpen, created, out, warnings>>

\* addTitleWordsToTags(example)
AddTitleWordsToTags ==
    /\ pc = "titleTags"
    /\ m_tags' = m_tags \cup TitleWords(Example.title)
    /\ pc' = "cleanUpTags"
    /\ UNCHANGED <<exampleNodeMap, m_project, m_manifestMetaContent, manifest, exampleIdx,
                   installPath, usedAttributes, fullName, filterIdx, exampleName, files,
                   filesToOpen, created, out, warnings>>

\* cleanUpTags().  With an empty tag in m_tags, tag.at(0) is read outside the
\* string: the build stops there (QString::at asserts its index), or the read
\* yields some character and cleanup goes on.
CleanUpTags ==
    /\ pc = "cleanUpTags"
    /\ IF \A tag \in m_tags : AtInBounds(tag, 0)
       THEN /\ m_tags' = CleanedTags(m_tags, "")
            /\ pc' = "writeTags"
       ELSE \/ /\ pc' = "crashed"
               /\ UNCHANGED m_tags
            \/ /\ \E garbage \in GarbageChars : m_tags' = CleanedTags(m_tags, garbage)
               /\ pc' = "writeTags"
    /\ UNCHANGED <<exampleNodeMap, m_project, m_manifestMetaContent, manifest, exampleIdx,
                   installPath, usedAttributes, fullName, filterIdx, exampleName, files,
                   filesToOpen, created, out, warnings>>

\* As WriteTagsElement, without m_tags.clear().
WriteTagsElementNoClear ==
    /\ pc = "writeTags"
    /\ IF m_tags = {}
       THEN UNCHANGED out
       ELSE Write(<<StartElement("tags"),
                    Characters(Join(SortedList(m_tags), ",")),
                    EndElement>>)
    /\ pc' = "files"
    /\ UNCHANGED <<exampleNodeMap, m_project, m_manifestMetaContent, m_tags, manifest,
                   exampleIdx, installPath, usedAttributes, fullName, filterIdx,
                   exampleName, files, filesToOpen, created, warnings>>

\* writeTagsElement(&writer)
WriteTagsElement ==
    /\ pc = "writeTags"
    /\ IF m_tags = {}
       THEN UNCHANGED <<out, m_tags>>
       ELSE /\ Write(<<StartElement("tags"),
                       Characters(Join(SortedList(m_tags), ",")),
                       EndElement>>)
            /\ m_tags' = {}
    /\ pc' = "files"
    /\ UNCHANGED <<exampleNodeMap, m_project, m_manifestMetaContent, manifest, exampleIdx,
                   installPath, usedAttributes, fullName, filterIdx, exampleName, files,
                   filesToOpen, created, warnings>>

\* exampleName, files and filesToOpen = getFilesToOpen(files, exampleName)
RankExampleFiles ==
    /\ pc = "files"
    /\ LET name == Mid(Example.name, LastIndexOf(Example.name, "/") + 1)
       IN  /\ exampleName' = name
           /\ files' = Example.files
           /\ filesToOpen' = GetFilesToOpen(Example.files, name)
    /\ pc' = "writeFiles"
    /\ UNCHANGED <<exampleNodeMap, m_project, m_manifestMetaContent, m_tags, manifest,
                   exampleIdx, installPath, usedAttributes, fullName, filterIdx, created,
                   out, warnings>>

\* writeFilesToOpen(writer, installPath, filesToOpen) and the end of the element
WriteExampleFiles ==
    /\ pc = "writeFiles"
    /\ Write(WriteFilesToOpen(installPath, filesToOpen) \o <<EndElement>>)
    /\ pc' = "loop"
    /\ UNCHANGED <<exampleNodeMap, m_project, m_manifestMetaContent, m_tags, manifest,
                   exampleIdx, installPath, usedAttributes, fullName, filterIdx,
                   exampleName, files, filesToOpen, created, warnings>>

\* After the loop: the open elements and the document are ended.
CloseManifest ==
    /\ pc = "close"
    /\ Write(<<EndElement, EndElement, EndDocument>>)
    /\ pc' = "return"
    /\ UNCHANGED <<exampleNodeMap, m_project, m_manifestMetaContent, m_tags, manifest,
                   exampleIdx, installPath, usedAttributes, fullName, filterIdx,
                   exampleName, files, filesToOpen, created, warnings>>

\* generateManifestFiles(): after "examples" comes generateManifestFile("demos",
\* "demo"); after "demos" the example map and the filters are cleared.
ReturnFromGenerateManifestFile ==
    /\ pc = "return"
    /\ IF manifest = "examples"
       THEN /\ manifest' = "demos"
            /\ pc' = "enter"
            /\ UNCHANGED <<exampleNodeMap, m_manifestMetaContent>>
       ELSE /\ exampleNodeMap' = {}
            /\ m_manifestMetaContent' = <<>>
            /\ pc' = "done"
            /\ UNCHANGED manifest
    /\ UNCHANGED <<m_project, m_tags, exampleIdx, installPath, usedAttributes, fullName,
                   filterIdx, exampleName, files, filesToOpen, created, out, warnings>>

Next ==
    \/ GenerateManifestFiles
    \/ EnterGenerateManifestFile
    \/ OpenOutputFile
    \/ NextExample
    \/ StartExample
    \/ WriteExampleElement
    \/ ProcessManifestMetaContent
    \/ WarnAboutUnusedAttributes
    \/ WriteDescription
    \/ AddWordsFromModuleNamesAsTags
    \/ IncludeTagsAddedWithMetaCommand
    \/ AddTitleWordsToTags
    \/ CleanUpTags
    \/ WriteTagsElement
    \/ RankExampleFiles
    \/ WriteExampleFiles
    \/ CloseManifest
    \/ ReturnFromGenerateManifestFile

Spec == Init /\ [][Next]_vars


(***************************************************************************)
(* The file ranking on its own: getFilesToOpen and writeFilesToOpen are    *)
(* applied to a file list, an example name and an install path drawn from  *)
(* the candidates; the writer's calls are recorded in out["examples"].     *)
(***************************************************************************)
FileLists == UNION {[1..n -> FileCandidates] : n \in 0..MaxFiles}

InitFiles ==
    /\ files \in FileLists
    /\ exampleName \in ExampleNameCandidates
    /\ installPath \in InstallPathCandidates
    /\ pc = "rank"
    /\ manifest = "examples"
    /\ filesToOpen = EmptyMap
    /\ out = [m \in Manifests |-> <<>>]
    /\ exampleNodeMap = {}
    /\ m_project = ""
    /\ m_manifestMetaContent = <<>>
    /\ m_tags = {}
    /\ exampleIdx = 0
    /\ usedAttributes = <<>>
    /\ fullName = ""
    /\ filterIdx = 0
    /\ created = {}
    /\ warnings = <<>>

CallGetFilesToOpen ==
    /\ pc = "rank"
    /\ filesToOpen' = GetFilesToOpen(files, exampleName)
    /\ pc' = "emit"
    /\ UNCHANGED <<exampleNodeMap, m_project, m_manifestMetaContent, m_tags, manifest,
                   exampleIdx, installPath, usedAttributes, fullName, filterIdx,
                   exampleName, files, created, out, warnings>>

CallWriteFilesToOpen ==
    /\ pc = "emit"
    /\ Write(WriteFilesToOpen(installPath, filesToOpen))
    /\ pc' = "emitted"
    /\ UNCHANGED <<exampleNodeMap, m_project, m_manifestMetaContent, m_tags, manifest,
                   exampleIdx, installPath, usedAttributes, fullName, filterIdx,
                   exampleName, files, filesToOpen, created, warnings>>

NextFiles == CallGetFilesToOpen \/ CallWriteFilesToOpen

SpecFiles == InitFiles /\ [][NextFiles]_vars

(***************************************************************************)
(* Reading back what was written                                           *)
(***************************************************************************)
\* The positions in out[m] where an example (or demo) element starts; the
\* event after each is the element's name attribute, which holds the title.
ElementStarts(m) == {i \in 1..Len(out[m]) : out[m][i] = StartElement(Element(m))}

\* The titles of the elements written to manifest m, in the order written.
RECURSIVE TitlesFrom(_, _)
TitlesFrom(m, i) ==
    IF i > Len(out[m]) THEN <<>>
    ELSE (IF i \in ElementStarts(m) THEN <<out[m][i + 1].value>> ELSE <<>>)
         \o TitlesFrom(m, i + 1)

WrittenTitles(m) == TitlesFrom(m, 1)

\* The titles of the examples in set S, in the map's order.
RECURSIVE TitlesOf(_)
TitlesOf(S) ==
    IF S = {} THEN <<>>
    ELSE <<ExampleTable[MinKey(S)].title>> \o TitlesOf(S \ {MinKey(S)})

NameStartsWithDemos(i) == SubSeq(ExampleTable[i].name \o "     ", 1, 5) = "demos"

PartitionOf(m) == {i \in exampleNodeMap : NameStartsWithDemos(i) <=> (m = "demos")}

BothPassesDone == pc = "return" /\ manifest = "demos"

(***************************************************************************)
(* C1.  As claimed: when both passes of generateManifestFiles are over,    *)
(* every example is in exactly one of the two manifests, the demos         *)
(* manifest iff its name starts with "demos", and a kind with no example   *)
(* has no output file.                                                     *)
(***************************************************************************)
C1_EveryExampleInExactlyOneManifest ==
    BothPassesDone =>
        /\ \A i \in exampleNodeMap :
              LET title == ExampleTable[i].title
                  inDemos == \E j \in 1..Len(WrittenTitles("demos")) :
                                 WrittenTitles("demos")[j] = title
                  inExamples == \E j \in 1..Len(WrittenTitles("examples")) :
                                    WrittenTitles("examples")[j] = title
              IN  /\ inDemos <=> NameStartsWithDemos(i)
                  /\ inExamples <=> ~NameStartsWithDemos(i)
        /\ \A m \in Manifests : PartitionOf(m) = {} => m \notin created

(***************************************************************************)
(* C1, amended.  When both passes are over, each manifest whose output     *)
(* file could be opened holds exactly the examples of its kind, each once  *)
(* and in the map's order (demos: name starts with "demos"; examples: the  *)
(* others), so no example is in both; a kind with no example has no output *)
(* file; and a kind whose file could not be opened has none of its         *)
(* examples written anywhere.                                              *)
(***************************************************************************)
C1_PartitionOfOpenedManifests ==
    BothPassesDone =>
        \A m \in Manifests :
            /\ PartitionOf(m) = {} => m \notin created
            /\ m \in created => WrittenTitles(m) = TitlesOf(PartitionOf(m))
            /\ m \notin created => out[m] = <<>>

C1_Witness ==
    /\ BothPassesDone
    /\ created = Manifests
    /\ \E i \in exampleNodeMap : ExampleTable[i].name = "demoscene"


(***************************************************************************)
(* The fileToOpen blocks among a writer's calls, in the order written:     *)
(* each with the path it holds and whether it carries mainFile="true".     *)
(***************************************************************************)
RECURSIVE FileBlocksFrom(_, _)
FileBlocksFrom(calls, i) ==
    IF i > Len(calls) THEN <<>>
    ELSE IF calls[i] = StartElement("fileToOpen")
         THEN LET main == calls[i + 1] = Attribute("mainFile", "true")
                  text == IF main THEN calls[i + 2].value ELSE calls[i + 1].value
              IN  <<[path |-> text, mainFile |-> main]>> \o FileBlocksFrom(calls, i + 1)
         ELSE FileBlocksFrom(calls, i + 1)

FileBlocks(calls) == FileBlocksFrom(calls, 1)

\* The priority under which a written path is ranked in filesToOpen.
HasPriority(path) == \E k \in DOMAIN filesToOpen : installPath \o filesToOpen[k] = path

PriorityOf(path) == CHOOSE k \in DOMAIN filesToOpen : installPath \o filesToOpen[k] = path

MainFileBlocks(blocks) == {n \in 1..Len(blocks) : blocks[n].mainFile}

(***************************************************************************)
(* C2.  As claimed: writeFilesToOpen emits one block per ranked file, in   *)
(* increasing priority number (0 first), exactly one block carries         *)
(* mainFile="true", the one of the lowest priority number present, and an  *)
(* empty ranking emits no block.                                           *)
(***************************************************************************)
C2_MostPreferredFirst ==
    pc = "emitted" =>
        LET blocks == FileBlocks(out["examples"])
        IN  /\ Len(blocks) = Cardinality(DOMAIN filesToOpen)
            /\ \A n \in 1..Len(blocks) : HasPriority(blocks[n].path)
            /\ \A n, k \in 1..Len(blocks) :
                  n < k => PriorityOf(blocks[n].path) < PriorityOf(blocks[k].path)
            /\ filesToOpen # EmptyMap => Cardinality(MainFileBlocks(blocks)) = 1
            /\ \A n \in MainFileBlocks(blocks) :
                  PriorityOf(blocks[n].path) = MinKey(DOMAIN filesToOpen)

(***************************************************************************)
(* C2, amended.  writeFilesToOpen emits one block per ranked file in       *)
(* decreasing priority number (the least preferred first, priority 0       *)
(* last); exactly one block carries mainFile="true", the last one emitted, *)
(* which is the block of the lowest priority number present; an empty      *)
(* ranking emits no block.                                                 *)
(***************************************************************************)
C2_MostPreferredLast ==
    pc = "emitted" =>
        LET blocks == FileBlocks(out["examples"])
        IN  /\ Len(blocks) = Cardinality(DOMAIN filesToOpen)
            /\ \A n \in 1..Len(blocks) : HasPriority(blocks[n].path)
            /\ \A n, k \in 1..Len(blocks) :
                  n < k => PriorityOf(blocks[n].path) > PriorityOf(blocks[k].path)
            /\ filesToOpen # EmptyMap => MainFileBlocks(blocks) = {Len(blocks)}
            /\ \A n \in MainFileBlocks(blocks) :
                  PriorityOf(blocks[n].path) = MinKey(DOMAIN filesToOpen)
            /\ filesToOpen = EmptyMap => out["examples"] = <<>>

C2_Witness ==
    /\ pc = "emitted"
    /\ Cardinality(DOMAIN filesToOpen) = 3
    /\ Len(FileBlocks(out["examples"])) = 3

(***************************************************************************)
(* C3.  getFilesToOpen ranks each file by the first rule that applies,     *)
(* case-insensitively: base name equal to the example name with extension  *)
(* qml -> 0, cpp -> 1, h -> 2 (any other extension: not ranked); otherwise *)
(* file name ending with main.qml -> 3; otherwise ending with main.cpp ->  *)
(* 4; otherwise not ranked.  A priority is present iff some file has it,   *)
(* and it holds the last such file of the list.                            *)
(***************************************************************************)
\* The text after the last '.' of a file name ("" without one).
Extension(name) ==
    IF LastIndexOf(name, ".") = -1 THEN "" ELSE Mid(name, LastIndexOf(name, ".") + 1)

\* The priority the rules give a file: a set with one number, or none.
RankOf(file, example) ==
    LET name == ToLower(FileName(file))
    IN  IF ToLower(BaseName(file)) = ToLower(example)
        THEN CASE Extension(name) = "qml" -> {0}
               [] Extension(name) = "cpp" -> {1}
               [] Extension(name) = "h" -> {2}
               [] OTHER -> {}
        ELSE IF EndsWith(name, "main.qml") THEN {3}
        ELSE IF EndsWith(name, "main.cpp") THEN {4}
        ELSE {}

C3_FirstRuleLastFile ==
    pc \in {"emit", "emitted"} =>
        /\ DOMAIN filesToOpen \subseteq 0..4
        /\ \A ranks \in {[i \in 1..Len(files) |-> RankOf(files[i], exampleName)]} :
              \A p \in 0..4 :
                  LET ranked == {i \in 1..Len(files) : p \in ranks[i]}
                  IN  /\ p \in DOMAIN filesToOpen <=> ranked # {}
                      /\ ranked # {} => filesToOpen[p] = files[MaxKey(ranked)]

C3_Witness ==
    /\ pc = "emit"
    /\ \E i, j \in 1..Len(files) :
          /\ i < j
          /\ files[i] # files[j]
          /\ RankOf(files[i], exampleName) = {0}
          /\ RankOf(files[j], exampleName) = {0}
    /\ \E i \in 1..Len(files) : RankOf(files[i], exampleName) = {}


(***************************************************************************)
(* The filter rules as the claims state them.                              *)
(***************************************************************************)
\* A pattern without '*' matches the equal full name; "*" matches all; any
\* other pattern matches the full names that start with the text before its
\* first '*'.
PatternMatches(pattern, full) ==
    IF "*" \notin CharsOf(pattern) THEN pattern = full
    ELSE IF pattern = "*" THEN TRUE
    ELSE \E k \in 0..(Len(pattern) - 1) :
            /\ At(pattern, k) = "*"
            /\ "*" \notin CharsOf(Left(pattern, k))
            /\ Len(full) >= k
            /\ Left(full, k) = Left(pattern, k)

RuleMatches(rule, full) == \E pattern \in rule.names : PatternMatches(pattern, full)

\* "key" or "key:value": the key, and the value ("true" when there is none).
KeyOf(attribute) ==
    IF ":" \in CharsOf(attribute) THEN Left(attribute, IndexOf(attribute, ":"))
    ELSE attribute

ValueOf(attribute) ==
    IF ":" \in CharsOf(attribute) THEN Mid(attribute, IndexOf(attribute, ":") + 1)
    ELSE "true"

\* The attribute calls that follow the start of the element at position i.
RECURSIVE AttributeRun(_, _)
AttributeRun(calls, j) ==
    IF j <= Len(calls) /\ calls[j].op = "attribute"
    THEN <<calls[j]>> \o AttributeRun(calls, j + 1)
    ELSE <<>>

ElementAttributes(m, i) == AttributeRun(out[m], i + 1)

ExampleTitled(title) == CHOOSE e \in exampleNodeMap : ExampleTable[e].title = title

\* The attributes an example element has of its own, in the order written.
OwnAttributes(e) ==
    LET example == ExampleTable[e]
    IN  <<Attribute("name", example.title),
          Attribute("docUrl", ManifestDir \o example.fileBase \o ".html")>>
        \o (IF example.projectFile # ""
            THEN <<Attribute("projectPath",
                             RetrieveExampleInstallationPath(example) \o example.projectFile)>>
            ELSE <<>>)
        \o (IF example.imageFileName # ""
            THEN <<Attribute("imageUrl", ManifestDir \o example.imageFileName)>>
            ELSE <<>>)

\* The element at position i of out[m] has the attributes the first-writer
\* rule gives it.
FirstWriterWins(m, i) ==
    LET attrs == ElementAttributes(m, i)
        e == ExampleTitled(out[m][i + 1].value)
        own == OwnAttributes(e)
        ownKeys == {own[n].name : n \in 1..Len(own)}
        full == m_project \o "/" \o ExampleTable[e].title
        matching == {f \in 1..Len(m_manifestMetaContent) :
                        RuleMatches(m_manifestMetaContent[f], full)}
        configures(f, key) ==
            \E a \in m_manifestMetaContent[f].attributes : KeyOf(a) = key
        offered == {KeyOf(a) : a \in UNION {m_manifestMetaContent[f].attributes :
                                               f \in matching}}
    IN  /\ Len(attrs) >= Len(own)
        /\ SubSeq(attrs, 1, Len(own)) = own
        /\ {attrs[n].name : n \in 1..Len(attrs)} = ownKeys \cup offered
        /\ \A n \in (Len(own) + 1)..Len(attrs) :
              LET first == MinKey({f \in matching : configures(f, attrs[n].name)})
              IN  attrs[n].value \in
                      {ValueOf(a) : a \in {b \in m_manifestMetaContent[first].attributes :
                                              KeyOf(b) = attrs[n].name}}

(***************************************************************************)
(* C4.  Within one example element no attribute key is written twice.      *)
(* name, docUrl and, when the example has them, projectPath and imageUrl   *)
(* come first with the example's own values; every key a matching filter   *)
(* rule configures is written once, with the value from the first matching *)
(* rule, in filter order, that configures it ("true" for a key without     *)
(* value); and that stays so until the manifest is closed.                 *)
(***************************************************************************)
C4_FirstWriterWins ==
    /\ \A m \in Manifests : \A i \in ElementStarts(m) :
          \A attrs \in {ElementAttributes(m, i)} :
              \A n, k \in 1..Len(attrs) : attrs[n].name = attrs[k].name => n = k
    /\ pc \in {"warn", "close"} =>
          \A i \in ElementStarts(manifest) : FirstWriterWins(manifest, i)

\* Two matching rules configure "category" with different values, and a rule
\* offers a key without a value.
C4_Witness ==
    /\ pc = "warn"
    /\ Len(m_manifestMetaContent) = 2
    /\ fullName = "MyModule/Foo"
    /\ \E i \in ElementStarts(manifest) :
          \A attrs \in {ElementAttributes(manifest, i)} :
              /\ out[manifest][i + 1].value = "Foo"
              /\ \E n \in 1..Len(attrs) : attrs[n] = Attribute("category", "demo")
              /\ \E n \in 1..Len(attrs) : attrs[n] = Attribute("isHighlighted", "true")
              /\ \E n \in 1..Len(attrs) : attrs[n] = Attribute("imageUrl", "fallback.png")

(***************************************************************************)
(* C10.  Whenever processManifestMetaContent handles a filter rule: if one *)
(* of its name patterns matches the example's full name (project + "/" +   *)
(* title) the rule's tags are merged into the tag set and each of its      *)
(* attribute keys is, after the step, among the used attributes; if none   *)
(* matches, the step changes neither the tags nor the used attributes nor  *)
(* the output.  A pattern matches as PatternMatches says.                  *)
(***************************************************************************)
C10_RuleAppliedIffPatternMatches ==
    [][(pc = "processMeta" /\ filterIdx <= Len(m_manifestMetaContent)) =>
          LET rule == m_manifestMetaContent[filterIdx]
              full == m_project \o "/" \o ExampleTable[exampleIdx].title
          IN  IF RuleMatches(rule, full)
              THEN /\ m_tags' = m_tags \cup rule.tags
                   /\ \A a \in rule.attributes : ListContains(usedAttributes', KeyOf(a))
              ELSE /\ m_tags' = m_tags
                   /\ usedAttributes' = usedAttributes
                   /\ out' = out]_vars

\* The rule with pattern "MyModule*" has been applied to "MyModule/Foo".
C10_Witness ==
    /\ pc = "processMeta"
    /\ filterIdx = 3
    /\ fullName = "MyModule/Foo"
    /\ "MyModule*" \in m_manifestMetaContent[2].names
    /\ "mobile" \in m_tags
    /\ ListContains(usedAttributes, "imageUrl")


(***************************************************************************)
(* Tags as the claims state them                                           *)
(***************************************************************************)
IsLowercase(tag) == \A ch \in CharsOf(tag) : ch \notin UpperCaseSet

OccursIn(part, whole) ==
    \E k \in 0..(Len(whole) - Len(part)) : SubSeq(whole, k + 1, k + Len(part)) = part

\* The tags of the filter rules that match the example being processed.
MatchingRuleTags ==
    UNION {m_manifestMetaContent[f].tags :
              f \in {g \in 1..Len(m_manifestMetaContent) :
                        RuleMatches(m_manifestMetaContent[g],
                                    m_project \o "/" \o ExampleTable[exampleIdx].title)}}

(***************************************************************************)
(* C5.  As claimed: after cleanUpTags every entry of the tag set is        *)
(* lowercase and has length >= 2, whatever its source.                     *)
(***************************************************************************)
C5_AllTagsLowercase ==
    pc = "writeTags" => \A tag \in m_tags : Len(tag) >= 2 /\ IsLowercase(tag)

(***************************************************************************)
(* C5, amended.  After cleanUpTags every entry of the tag set has length   *)
(* >= 2, and every entry is lowercase unless it comes from a tag of a      *)
(* matching filter rule: those are merged as configured, not lowercased.   *)
(***************************************************************************)
C5_LowercaseUnlessFromFilter ==
    pc = "writeTags" =>
        \A tag \in m_tags :
            /\ Len(tag) >= 2
            /\ IsLowercase(tag) \/ \E configured \in MatchingRuleTags : OccursIn(tag, configured)

\* A filter tag with an upper-case letter is in the cleaned set beside
\* lowercased title words.
C5_Witness ==
    /\ pc = "writeTags"
    /\ "Android" \in m_tags
    /\ "calqlatr" \in m_tags

(***************************************************************************)
(* C6.  As claimed: cleanUpTags applied to the set cleanUpTags left yields *)
(* that same set.                                                          *)
(***************************************************************************)
C6_CleanupIdempotent ==
    pc = "writeTags" => \A garbage \in GarbageChars : CleanedTags(m_tags, garbage) = m_tags

(***************************************************************************)
(* C6, amended.  cleanUpTags applied to the set cleanUpTags left yields    *)
(* that same set whenever no tag of it still starts with '(' or ends with  *)
(* ':' (one pass strips one pair of parentheses and one colon only).       *)
(***************************************************************************)
C6_IdempotentOnceStripped ==
    (/\ pc = "writeTags"
     /\ \A tag \in m_tags : At(tag, 0) # "(" /\ ~EndsWith(tag, ":"))
        => \A garbage \in GarbageChars : CleanedTags(m_tags, garbage) = m_tags

\* "(qml)" of the title was stripped to "qml", and nothing is left to strip.
C6_Witness ==
    /\ pc = "writeTags"
    /\ "qml" \in m_tags
    /\ \A tag \in m_tags : At(tag, 0) # "(" /\ ~EndsWith(tag, ":")

(***************************************************************************)
(* C7.  As claimed: the tags derived from the module name, after cleanup,  *)
(* are {"quick3d"} for QtQuick3D, {"opengl"} for QtOpenGL and              *)
(* {"quick", "controls"} for QtQuickControls.  (With no filter rule the    *)
(* tag set holds the module name's words alone once                        *)
(* addWordsFromModuleNamesAsTags has run.)                                 *)
(***************************************************************************)
C7_ModuleNameTags ==
    (pc = "metaTags" /\ m_manifestMetaContent = <<>>) =>
        /\ m_project = "QtQuick3D" => CleanedTags(m_tags, "") = {"quick3d"}
        /\ m_project = "QtOpenGL" => CleanedTags(m_tags, "") = {"opengl"}
        /\ m_project = "QtQuickControls" => CleanedTags(m_tags, "") = {"quick", "controls"}

(***************************************************************************)
(* C8.  As claimed: no tag-derivation step fails hard; cleanUpTags reads   *)
(* no character outside a candidate, so generateManifestFiles never stops  *)
(* in cleanUpTags.                                                         *)
(***************************************************************************)
C8_NoHardFailure == pc # "crashed"

(***************************************************************************)
(* C9.  Whenever an example's element is about to be written, in either    *)
(* pass, the tag set is empty and the used attributes are exactly name and *)
(* docUrl; and the tags element written for an example holds the cleaned   *)
(* candidates of that example alone (matching filter tags, module name     *)
(* words, \meta tags, title words), sorted and joined with ',', or is      *)
(* left out when there are none.                                           *)
(***************************************************************************)
OwnCandidates ==
    MatchingRuleTags
        \cup ModuleNameWords(m_project, 0)
        \cup (IF ExampleTable[exampleIdx].hasMetaTagMap
              THEN MetaCommandTags(ExampleTable[exampleIdx].metaTags) ELSE {})
        \cup TitleWords(ExampleTable[exampleIdx].title)

C9_NoLeakBetweenExamples ==
    /\ pc = "writeElement" => m_tags = {} /\ usedAttributes = <<"name", "docUrl">>
    /\ pc = "files" =>
          \A expected \in {CleanedTags(OwnCandidates, "(")} :
              \A calls \in {out[manifest]} :
                  IF expected = {}
                  THEN /\ calls[Len(calls)] = EndElement
                       /\ calls[Len(calls) - 1].op = "cdata"
                  ELSE
                       /\ calls[Len(calls)] = EndElement
                       /\ calls[Len(calls) - 1] = Characters(Join(SortedList(expected), ","))
                       /\ calls[Len(calls) - 2] = StartElement("tags")

\* A second example of a pass is about to be written after a first one that
\* ended with an empty tag set, so that no tags element was written.
C9_Witness ==
    /\ pc = "writeElement"
    /\ \E i \in exampleNodeMap : i < exampleIdx /\ ~SkipsExample(manifest = "demos", i)
    /\ \A n \in 1..Len(out[manifest]) : out[manifest][n] # StartElement("tags")


(***************************************************************************)
(* The missing-attribute warnings as the claims state them.                *)
(***************************************************************************)
WarnedAttributes == {"imageUrl", "projectPath"}

WarningText(name, attribute) == name \o ": missing attribute " \o attribute

CountIn(list, x) == Cardinality({n \in 1..Len(list) : list[n] = x})

\* The file of the example that writes the attribute as one of its own.
OwnFile(e, attribute) ==
    IF attribute = "imageUrl" THEN ExampleTable[e].imageFileName
    ELSE ExampleTable[e].projectFile

\* Some rule that matches the example configures the attribute.
OfferedByMatchingRule(e, attribute) ==
    \E f \in 1..Len(m_manifestMetaContent) :
        /\ RuleMatches(m_manifestMetaContent[f], m_project \o "/" \o ExampleTable[e].title)
        /\ \E a \in m_manifestMetaContent[f].attributes : KeyOf(a) = attribute

MissingFor(e, attribute) ==
    OwnFile(e, attribute) = "" /\ ~OfferedByMatchingRule(e, attribute)

\* The element of example e has been started in one of the manifests.
ElementStarted(e) ==
    \E m \in Manifests :
        \E i \in ElementStarts(m) :
            /\ i < Len(out[m])
            /\ out[m][i + 1] = Attribute("name", ExampleTable[e].title)

\* Example e is serialized and warnAboutUnusedAttributes has returned for it.
PastWarning(e) ==
    ElementStarted(e) /\ ~(e = exampleIdx /\ pc \in {"processMeta", "warn"})

\* The steps of an example's serialization that follow writeDescription.
AfterDescription ==
    {"moduleTags", "metaTags", "titleTags", "cleanUpTags", "writeTags", "crashed",
     "files", "writeFiles"}

\* The example just serialized: the loop is about to take the next one.
JustSerialized ==
    /\ pc = "loop"
    /\ exampleIdx \in exampleNodeMap
    /\ ~SkipsExample(manifest = "demos", exampleIdx)

\* What follows the attributes of an example's element: the description,
\* the tags element if there are cleaned tags, a fileToOpen block for each
\* ranked file, and the end of the element.
DescriptionBlock(example) ==
    <<StartElement("description"),
      CDATA(IF example.brief # "" THEN example.brief ELSE "No description available"),
      EndElement>>

TagsBlock(tags) ==
    IF tags = {} THEN <<>>
    ELSE <<StartElement("tags"), Characters(Join(SortedList(tags), ",")), EndElement>>

FileBlocksOf(example) ==
    WriteFilesToOpen(RetrieveExampleInstallationPath(example),
                     GetFilesToOpen(example.files,
                                    Mid(example.name, LastIndexOf(example.name, "/") + 1)))

\* The calls of the current manifest from the first one after the attributes
\* of its last example element.
CallsAfterAttributes ==
    LET calls == out[manifest]
        start == MaxKey(ElementStarts(manifest))
    IN  SubSeq(calls, start + Len(ElementAttributes(manifest, start)) + 1, Len(calls))

(***************************************************************************)
(* C11.  For each serialized example and each of imageUrl and projectPath, *)
(* the warning "<name>: missing attribute <key>" is issued once if the key *)
(* is missing from the example's used attributes, which is the case        *)
(* exactly when the example has no file of its own for it and no matching  *)
(* filter rule configures it, and not at all otherwise; no other warning   *)
(* is issued, so an example missing both has two warnings.  The warnings   *)
(* do not stop the output: the description follows the element's           *)
(* attributes in every later step, and the element of an example that has  *)
(* been serialized holds the description, the tags element of its cleaned  *)
(* tags and the fileToOpen blocks of its ranked files.                     *)
(***************************************************************************)
C11_WarningsExactAndNotBlocking ==
    pc # "done" =>
        /\ \A e \in exampleNodeMap : \A attribute \in WarnedAttributes :
              CountIn(warnings, WarningText(ExampleTable[e].name, attribute))
                  = IF PastWarning(e) /\ MissingFor(e, attribute) THEN 1 ELSE 0
        /\ \A n \in 1..Len(warnings) :
              \E e \in exampleNodeMap : \E attribute \in WarnedAttributes :
                  warnings[n] = WarningText(ExampleTable[e].name, attribute)
        /\ pc \in {"warn", "description"} \cup AfterDescription =>
              \A attribute \in WarnedAttributes :
                  /\ ~ListContains(usedAttributes, attribute)
                        <=> MissingFor(exampleIdx, attribute)
                  /\ ~ListContains(usedAttributes, attribute)
                        <=> \A n \in 1..Len(ElementAttributes(manifest,
                                                MaxKey(ElementStarts(manifest)))) :
                               ElementAttributes(manifest,
                                   MaxKey(ElementStarts(manifest)))[n].name # attribute
        /\ pc \in AfterDescription =>
              SubSeq(CallsAfterAttributes, 1, 3) = DescriptionBlock(Example)
        /\ JustSerialized =>
              CallsAfterAttributes
                  = DescriptionBlock(Example)
                    \o TagsBlock(CleanedTags(OwnCandidates, "("))
                    \o FileBlocksOf(Example)
                    \o <<EndElement>>

\* Both passes are done; an example missing both attributes has its two
\* warnings and its tags element in the demos manifest, and an example
\* missing imageUrl alone has its one warning and a fileToOpen block in the
\* examples manifest.
C11_Witness ==
    /\ BothPassesDone
    /\ \E e \in exampleNodeMap :
          /\ IsDemo(e)
          /\ CountIn(warnings, WarningText(ExampleTable[e].name, "imageUrl")) = 1
          /\ CountIn(warnings, WarningText(ExampleTable[e].name, "projectPath")) = 1
          /\ \E n \in 1..Len(out["demos"]) : out["demos"][n] = StartElement("tags")
    /\ \E e \in exampleNodeMap :
          /\ ~IsDemo(e)
          /\ CountIn(warnings, WarningText(ExampleTable[e].name, "imageUrl")) = 1
          /\ CountIn(warnings, WarningText(ExampleTable[e].name, "projectPath")) = 0
          /\ \E n \in 1..Len(out["examples"]) :
                out["examples"][n] = StartElement("fileToOpen")
    /\ Len(warnings) = 3

=============================================================================
